---- MODULE Spec2Model ----
(***************************************************************************)
(* A model of the girl crate (Gamepad Input Rust Library): the per-finger  *)
(* touchpad tracker of Gamepad::touchpad, the event translator             *)
(* Event::from_sdl, the event pump of Girl, the stick, trigger and button  *)
(* queries of Gamepad, the iterator of Girl::gamepads_connected, the       *)
(* comparisons of Gamepad handles, the rumble calls and the start-up and   *)
(* polling thread of ControllerSystem.                                     *)
(*                                                                         *)
(* Indices are 0-based as in the Rust source: the finger table is a        *)
(* function over 0..n-1 of functions over 0..m-1.  A position [x, y] is    *)
(* the tuple <<x, y>>.  Touchpad coordinates and pressures are floats in   *)
(* the source and are only ever compared for equality, so the model draws  *)
(* them from small integer ranges.                                         *)
(***************************************************************************)
EXTENDS Integers, Sequences, FiniteSets, TLC

VARIABLES
    device,     \* what the backend reports for the attached controller
    connected,  \* TRUE while the backend still resolves the instance id
    touchpads,  \* Gamepad.touchpads: Vec<Vec<TouchpadState>>
    result,     \* outcome of the last touchpad() call: "None", "Ok", "Err"
    states,     \* the Vec<TouchpadState> returned by the last touchpad() call
    polled,     \* history: what each finger query of the last call returned
    lastRead,   \* history: the last sample successfully read for each slot
    polls,      \* history: parity of the number of touchpad() calls made
    features,   \* the cargo features the crate was built with
    event_pump, \* the backend's queue of raw events, oldest first
    blocking,   \* TRUE while a call of event_blocking() has not returned
    sdl_event,  \* history: the raw event the last poll or wait took
    ret,        \* what the last event() or event_blocking() returned
    call,       \* history: the last input query, its arguments and what the
                \* backend reported to it
    returned,   \* what that query returned
    joysticks,  \* the backend's joystick table, by device index
    idx,        \* ConnectedGamepads.idx, or NoIterator
    yielded,    \* history: the device indices the iterator has yielded
    item,       \* what the last next() returned
    sdl_initialized, \* TRUE while the backend is initialised
    sdl_queue,  \* the backend's queue of event types, oldest first
    ev_rx,      \* the messages sent on the channel of the ControllerSystem
    rx_alive,   \* TRUE while a ControllerSystem holds the receiving end
    thread,     \* the "girl-sdl2" thread: "none", "running", "Ok" or "Err"
    ty          \* the event type the thread has polled and not yet matched

gamepadVars == <<device, connected, touchpads, result, states, polled, lastRead, polls>>

girlVars == <<features, event_pump, blocking, sdl_event, ret>>

inputVars == <<call, returned>>

iterVars == <<joysticks, idx, yielded, item>>

csVars == <<sdl_initialized, sdl_queue, ev_rx, rx_alive, thread, ty>>

vars == <<gamepadVars, girlVars, inputVars, iterVars, csVars>>

----------------------------------------------------------------------------
(* Bounds of the exploration.                                              *)

\* Largest coordinate value a touchpad reports (coordinates are 0..MaxCoord).
MaxCoord == 1

\* Largest pressure value a touchpad reports (pressures are 0..MaxPressure).
MaxPressure == 1

\* Touchpad counts the backend may report at open time (negative = error).
TouchpadCounts == {-1, 0, 1, 2}

\* Finger counts the backend may report for touchpad 0 (negative = error).
FingerCounts == {-1, 0, 1, 2}

----------------------------------------------------------------------------
(* Gamepad: touchpad state tracker.                                        *)

RELEASED == 0

PRESSED == 1

\* A finger query that returned a non-zero code: the out-parameters keep the
\* zeros they were initialised with.
QueryFailed == [res |-> -1, state |-> 0, position |-> <<0, 0>>, pressure |-> 0]

\* History marker of a slot that no query has read.
NoSample == QueryFailed

\* A slot that starts out touched.
TouchedTouchpadState ==
    [touchpad |-> 0, finger |-> 0, position |-> <<0, 0>>, pressure |-> 0,
     action |-> "Touched"]

DefaultTouchpadState ==
    [touchpad |-> 0, finger |-> 0, position |-> <<0, 0>>, pressure |-> 0,
     action |-> "Released"]

\* A negative count taken as its magnitude.
NonNegativeAbs(n) == IF n < 0 THEN -n ELSE n

NonNegative(n) == IF n < 0 THEN 0 ELSE n

\* The finger table built at open time.
touchpads_init(dev) ==
    LET tps     == NonNegative(dev.num_touchpads)
        fingers == NonNegative(dev.num_fingers)
    IN  [t \in 0 .. tps - 1 |-> [f \in 0 .. fingers - 1 |-> DefaultTouchpadState]]

\* has_touchpads(): the number of rows of the finger table.
has_touchpads == Cardinality(DOMAIN touchpads)

\* The controllers explored.  A pad with one slot reports the full ranges of
\* coordinates and pressures, a pad with two slots a single position and the
\* full range of pressures, larger pads a single position and pressure: the
\* slots are tracked independently of each other, and the state space is the
\* product over the slots.
Devices ==
    { [num_touchpads |-> nt, num_fingers |-> nf,
       coords    |-> IF NonNegative(nt) * NonNegative(nf) <= 1
                     THEN 0 .. MaxCoord ELSE {0},
       pressures |-> IF NonNegative(nt) * NonNegative(nf) <= 2
                     THEN 0 .. MaxPressure ELSE {0}]
      : nt \in TouchpadCounts, nf \in FingerCounts }

\* What SDL_GameControllerGetTouchpadFinger writes on success.
RawSamples(dev) ==
    [res : {0}, state : {RELEASED, PRESSED},
     position : dev.coords \X dev.coords,
     pressure : dev.pressures]

\* The slots of the finger table, as (touchpad index, finger index).
Slots(tps) == UNION { {<<t, f>> : f \in DOMAIN tps[t]} : t \in DOMAIN tps }

\* match state { RELEASED => Released, PRESSED => Touched, _ => unreachable }
ActionOf(state) ==
    CASE state = RELEASED -> "Released"
      [] state = PRESSED  -> "Touched"

\* EventType without the comparison of position and pressure: a finger that
\* stays pressed is reported as moved on every poll.
EventTypeNoDedup(action, prev, position, pressure) ==
    IF action = prev.action
    THEN IF action = "Released" THEN "Continue" ELSE "Moved"
    ELSE IF action = "Touched" THEN "Touched" ELSE "Released"

\* EventType without the filter of repeated releases.
EventTypeRepeatRelease(action, prev, position, pressure) ==
    IF action = prev.action
    THEN IF action = "Released"
         THEN "Released"
         ELSE IF position = prev.position /\ pressure = prev.pressure
              THEN "Continue"
              ELSE "Moved"
    ELSE IF action = "Touched" THEN "Touched" ELSE "Released"

\* EventType reporting a repeated touch as a new touch.
EventTypeTouchedAgain(action, prev, position, pressure) ==
    IF action = prev.action
    THEN IF action = "Released"
         THEN "Continue"
         ELSE IF position = prev.position /\ pressure = prev.pressure
              THEN "Continue"
              ELSE "Touched"
    ELSE IF action = "Touched" THEN "Touched" ELSE "Released"

\* EventType with the comparison of position and pressure made before the
\* comparison of the actions: a finger coming back where it left is dropped.
EventTypeDedupFirst(action, prev, position, pressure) ==
    IF position = prev.position /\ pressure = prev.pressure /\ action = "Touched"
    THEN "Continue"
    ELSE IF action = prev.action
         THEN IF action = "Released" THEN "Continue" ELSE "Moved"
         ELSE IF action = "Touched" THEN "Touched" ELSE "Released"

\* The event type of a successfully read sample against the stored slot:
\* "Continue" stands for the two `continue` statements.
EventType(action, prev, position, pressure) ==
    IF action = prev.action
    THEN IF action = "Released"
         THEN "Continue"
         ELSE IF position = prev.position /\ pressure = prev.pressure
              THEN "Continue"
              ELSE "Moved"
    ELSE IF action = "Touched" THEN "Touched" ELSE "Released"

\* StorePrev that forgets the position.
StorePrevNoPosition(prev, action, position, pressure) ==
    [prev EXCEPT !.action = action, !.pressure = pressure]

\* StorePrev that stores Moved for a pressed sample on a touched slot.
StorePrevMoved(prev, action, position, pressure) ==
    [prev EXCEPT !.action = IF action = prev.action THEN "Moved" ELSE action,
                 !.position = position, !.pressure = pressure]

\* The stored slot after an event was pushed.
StorePrev(prev, action, position, pressure) ==
    [prev EXCEPT !.action = action, !.position = position, !.pressure = pressure]

\* A loop body that forgets the slot when its finger query fails.
FingerBodyResetOnFail(prev, touchpad_idx, finger_idx, res) ==
    IF res.res # 0
    THEN [prev |-> DefaultTouchpadState, pushed |-> <<>>]
    ELSE LET action     == ActionOf(res.state)
             event_type == EventType(action, prev, res.position, res.pressure)
         IN  IF event_type = "Continue"
             THEN [prev |-> prev, pushed |-> <<>>]
             ELSE [prev   |-> StorePrev(prev, action, res.position, res.pressure),
                   pushed |-> << [touchpad |-> touchpad_idx,
                                  finger   |-> finger_idx,
                                  position |-> res.position,
                                  pressure |-> res.pressure,
                                  action   |-> event_type] >>]

\* The body of the inner loop for slot (touchpad_idx, finger_idx): `res` is
\* what the finger query returned and wrote.
FingerBody(prev, touchpad_idx, finger_idx, res) ==
    IF res.res # 0
    THEN [prev |-> prev, pushed |-> <<>>]
    ELSE LET action     == ActionOf(res.state)
             event_type == EventType(action, prev, res.position, res.pressure)
         IN  IF event_type = "Continue"
             THEN [prev |-> prev, pushed |-> <<>>]
             ELSE [prev   |-> StorePrev(prev, action, res.position, res.pressure),
                   pushed |-> << [touchpad |-> touchpad_idx,
                                  finger   |-> finger_idx,
                                  position |-> res.position,
                                  pressure |-> res.pressure,
                                  action   |-> event_type] >>]

\* Push at the front of the Vec.
PushFront(acc, pushed) == pushed \o acc

\* Where a pushed event goes in the returned Vec.
Push(acc, pushed) == acc \o pushed

\* The inner loop leaving the row at the first failed finger query.
RECURSIVE FingerLoopBreak(_, _, _, _, _)
FingerLoopBreak(row, raw, touchpad_idx, finger_idx, acc) ==
    IF finger_idx \notin DOMAIN row
    THEN [row |-> row, states |-> acc]
    ELSE IF raw[<<touchpad_idx, finger_idx>>].res # 0
         THEN [row |-> row, states |-> acc]
         ELSE LET b == FingerBody(row[finger_idx], touchpad_idx, finger_idx,
                                  raw[<<touchpad_idx, finger_idx>>])
              IN  FingerLoopBreak([row EXCEPT ![finger_idx] = b.prev], raw,
                                  touchpad_idx, finger_idx + 1,
                                  Push(acc, b.pushed))

RECURSIVE FingerLoop(_, _, _, _, _)
FingerLoop(row, raw, touchpad_idx, finger_idx, acc) ==
    IF finger_idx \notin DOMAIN row
    THEN [row |-> row, states |-> acc]
    ELSE LET b == FingerBody(row[finger_idx], touchpad_idx, finger_idx,
                             raw[<<touchpad_idx, finger_idx>>])
         IN  FingerLoop([row EXCEPT ![finger_idx] = b.prev], raw,
                        touchpad_idx, finger_idx + 1, Push(acc, b.pushed))

RECURSIVE TouchpadLoop(_, _, _, _)
TouchpadLoop(tps, raw, touchpad_idx, acc) ==
    IF touchpad_idx \notin DOMAIN tps
    THEN [touchpads |-> tps, states |-> acc]
    ELSE LET r == FingerLoop(tps[touchpad_idx], raw, touchpad_idx, 0, acc)
         IN  TouchpadLoop([tps EXCEPT ![touchpad_idx] = r.row], raw,
                          touchpad_idx + 1, r.states)

\* A handle that resolves whatever became of the controller.
raw_always_ok == TRUE

\* Gamepad::raw: the controller pointer, or the error of a stale instance id.
raw_ok == connected

\* Gamepad::touchpad.
touchpad ==
    /\ IF ~raw_ok
       THEN /\ result' = "Err"
            /\ states' = <<>>
            /\ polled' = [s \in Slots(touchpads) |-> NoSample]
            /\ UNCHANGED <<touchpads, lastRead>>
       ELSE \E raw \in [Slots(touchpads) -> RawSamples(device) \cup {QueryFailed}] :
                LET out == TouchpadLoop(touchpads, raw, 0, <<>>)
                IN  /\ touchpads' = out.touchpads
                    /\ states' = out.states
                    /\ result' = "Ok"
                    /\ polled' = raw
                    /\ lastRead' = [s \in Slots(touchpads) |->
                                      IF raw[s].res # 0 THEN lastRead[s]
                                      ELSE raw[s]]
    /\ polls' = 1 - polls
    /\ UNCHANGED <<device, connected, girlVars, csVars, inputVars, iterVars>>

\* The controller is unplugged: its instance id is never valid again.
Disconnect ==
    /\ connected
    /\ connected' = FALSE
    /\ UNCHANGED <<device, touchpads, result, states, polled, lastRead, polls,
                   girlVars, csVars, inputVars, iterVars>>

----------------------------------------------------------------------------
(* Reals.  An f64 is modelled by the rational it holds, a pair <<n, d>>    *)
(* in lowest terms with d > 0.                                             *)

RECURSIVE Gcd(_, _)
Gcd(a, b) == IF b = 0 THEN a ELSE Gcd(b, a % b)

IntAbs(n) == IF n < 0 THEN -n ELSE n

Rat(n, d) ==
    LET g == Gcd(IntAbs(n), IntAbs(d))
        sg == IF d < 0 THEN -1 ELSE 1
    IN  <<(sg * n) \div g, (sg * d) \div g>>

OfInt(n) == <<n, 1>>

RDiv(a, b) == Rat(a[1] * b[2], a[2] * b[1])

RAbs(a) == <<IntAbs(a[1]), a[2]>>

RLess(a, b) == a[1] * b[2] < b[1] * a[2]

Zero == <<0, 1>>

----------------------------------------------------------------------------
(* Axis normalizer.                                                        *)

\* SDL_JOYSTICK_AXIS_MAX as f64.
AXIS_MAX == 32767

\* Gamepad::STICK_DEADZONE = 0.1
STICK_DEADZONE == <<1, 10>>

\* A normalizer that also zeroes a value on the edge of the deadzone.
map_inclusive(value, threshold, max) ==
    LET v == RDiv(value, max)
    IN  IF ~RLess(threshold, RAbs(v)) THEN Zero ELSE v

\* fn map(value, threshold, max)
map(value, threshold, max) ==
    LET v == RDiv(value, max)
    IN  IF RLess(RAbs(v), threshold) THEN Zero ELSE v

----------------------------------------------------------------------------
(* Event translator.                                                       *)

\* The raw event kinds Event::from_sdl discards whatever the features.
OtherKinds ==
    {"AppTerminating", "AppLowMemory", "AppWillEnterBackground",
     "AppDidEnterBackground", "AppWillEnterForeground",
     "AppDidEnterForeground", "Display", "Window", "KeyDown", "KeyUp",
     "TextEditing", "TextInput", "MouseMotion", "MouseButtonDown",
     "MouseButtonUp", "MouseWheel", "JoyAxisMotion", "JoyBallMotion",
     "JoyHatMotion", "JoyButtonDown", "JoyButtonUp", "JoyDeviceAdded",
     "JoyDeviceRemoved", "FingerDown", "FingerUp", "FingerMotion",
     "DollarGesture", "DollarRecord", "MultiGesture", "ClipboardUpdate",
     "DropFile", "DropText", "DropBegin", "DropComplete", "AudioDeviceAdded",
     "AudioDeviceRemoved", "RenderTargetsReset", "RenderDeviceReset",
     "LocaleChanged", "User", "Unknown"}

SdlAxes == {"LeftX", "LeftY", "RightX", "RightY", "TriggerLeft", "TriggerRight"}

SdlButtons ==
    {"A", "B", "X", "Y", "Back", "Guide", "Start", "LeftStick", "RightStick",
     "LeftShoulder", "RightShoulder", "DPadUp", "DPadDown", "DPadLeft",
     "DPadRight", "Misc1", "Paddle1", "Paddle2", "Paddle3", "Paddle4",
     "Touchpad"}

SdlSensorTypes ==
    {"Unknown", "Gyroscope", "LeftGyroscope", "RightGyroscope",
     "Accelerometer", "LeftAccelerometer", "RightAccelerometer"}

\* Controller instance ids carried by the raw events explored.
Whichs == {0, 1}

\* Raw axis values explored: the ends of the i16 range, zero, both sides of
\* the default deadzone and a half deflection.
AxisValues == {-32768, -3277, -3276, 0, 3276, 3277, 16384, 32767}

\* Raw sensor readings explored (f32, as rationals): inside and outside the
\* 0.01 threshold.
SensorValues == {<<-3, 1>>, <<1, 200>>, <<1, 2>>}

\* The raw events explored, by kind.  ControllerSensorUpdated exists in the
\* backend's event type only when the sensors feature is built.
SdlEvents(feat) ==
    [kind : OtherKinds \cup {"Quit"}]
    \cup [kind : {"ControllerAxisMotion"}, which : Whichs, axis : SdlAxes,
          value : AxisValues]
    \cup [kind : {"ControllerButtonDown", "ControllerButtonUp"},
          which : Whichs, button : SdlButtons]
    \cup [kind : {"ControllerDeviceAdded", "ControllerDeviceRemoved",
                  "ControllerDeviceRemapped", "ControllerSteamHandleUpdate"},
          which : Whichs]
    \cup [kind : {"ControllerTouchpadDown", "ControllerTouchpadMotion",
                  "ControllerTouchpadUp"},
          which : Whichs, touchpad : {0, 1}, finger : {0}, x : {0, 1},
          y : {0}, pressure : {1}]
    \cup (IF feat.sensors
          THEN [kind : {"ControllerSensorUpdated"}, which : Whichs,
                sensor : SdlSensorTypes,
                data : {<<a, a, b>> : a \in SensorValues, b \in {<<1, 200>>, <<1, 2>>}}]
          ELSE {})

\* Option::None.
None == [tag |-> "None"]

\* Button::from_sdl: the flag, as its integer value.
Button_from_sdl(button) ==
    CASE button = "A"             -> 2 ^ 0
      [] button = "B"             -> 2 ^ 1
      [] button = "X"             -> 2 ^ 2
      [] button = "Y"             -> 2 ^ 3
      [] button = "Back"          -> 2 ^ 4
      [] button = "Guide"         -> 2 ^ 5
      [] button = "Start"         -> 2 ^ 6
      [] button = "LeftStick"     -> 2 ^ 7
      [] button = "RightStick"    -> 2 ^ 8
      [] button = "LeftShoulder"  -> 2 ^ 9
      [] button = "RightShoulder" -> 2 ^ 10
      [] button = "DPadUp"        -> 2 ^ 11
      [] button = "DPadDown"      -> 2 ^ 12
      [] button = "DPadLeft"      -> 2 ^ 13
      [] button = "DPadRight"     -> 2 ^ 14
      [] button = "Misc1"         -> 2 ^ 15
      [] button = "Paddle1"       -> 2 ^ 16
      [] button = "Paddle2"       -> 2 ^ 17
      [] button = "Paddle3"       -> 2 ^ 18
      [] button = "Paddle4"       -> 2 ^ 19
      [] button = "Touchpad"      -> 2 ^ 20

\* The flags the Button bitflags type defines, as integer values.
ButtonFlags == {2 ^ n : n \in 0 .. 20}

\* A conversion back that confuses A and B.
Button_into_sdl_Swapped(flag) ==
    IF flag = 2 ^ 0 THEN "B"
    ELSE IF flag = 2 ^ 1 THEN "A"
    ELSE CHOOSE b \in SdlButtons : Button_from_sdl(b) = flag

\* Button::into_sdl: matches single flags; any other value is unreachable!.
Button_into_sdl(flag) ==
    CASE flag = 2 ^ 0  -> "A"
      [] flag = 2 ^ 1  -> "B"
      [] flag = 2 ^ 2  -> "X"
      [] flag = 2 ^ 3  -> "Y"
      [] flag = 2 ^ 4  -> "Back"
      [] flag = 2 ^ 5  -> "Guide"
      [] flag = 2 ^ 6  -> "Start"
      [] flag = 2 ^ 7  -> "LeftStick"
      [] flag = 2 ^ 8  -> "RightStick"
      [] flag = 2 ^ 9  -> "LeftShoulder"
      [] flag = 2 ^ 10 -> "RightShoulder"
      [] flag = 2 ^ 11 -> "DPadUp"
      [] flag = 2 ^ 12 -> "DPadDown"
      [] flag = 2 ^ 13 -> "DPadLeft"
      [] flag = 2 ^ 14 -> "DPadRight"
      [] flag = 2 ^ 15 -> "Misc1"
      [] flag = 2 ^ 16 -> "Paddle1"
      [] flag = 2 ^ 17 -> "Paddle2"
      [] flag = 2 ^ 18 -> "Paddle3"
      [] flag = 2 ^ 19 -> "Paddle4"
      [] flag = 2 ^ 20 -> "Touchpad"

\* Sensor::from_sdl.
Sensor_from_sdl(sensor) ==
    CASE sensor = "Unknown"            -> "Unknown"
      [] sensor = "Gyroscope"          -> "Gyroscope"
      [] sensor = "LeftGyroscope"      -> "LeftGyroscope"
      [] sensor = "RightGyroscope"     -> "RightGyroscope"
      [] sensor = "Accelerometer"      -> "Accelerometer"
      [] sensor = "LeftAccelerometer"  -> "LeftAccelerometer"
      [] sensor = "RightAccelerometer" -> "RightAccelerometer"

\* TouchpadEvent::from_sdl without the arm of ControllerTouchpadMotion.
TouchpadEvent_from_sdl_NoMotion(event) ==
    LET ev(action) ==
            [tag |-> "Some", which |-> event.which, idx |-> event.touchpad,
             finger |-> event.finger, position |-> <<event.x, event.y>>,
             pressure |-> event.pressure, action |-> action]
    IN  CASE event.kind = "ControllerTouchpadDown"   -> ev("Touched")
          [] event.kind = "ControllerTouchpadUp"     -> ev("Released")
          [] OTHER -> [tag |-> "None"]

\* TouchpadEvent::from_sdl.
TouchpadEvent_from_sdl(event) ==
    LET ev(action) ==
            [tag |-> "Some", which |-> event.which, idx |-> event.touchpad,
             finger |-> event.finger, position |-> <<event.x, event.y>>,
             pressure |-> event.pressure, action |-> action]
    IN  CASE event.kind = "ControllerTouchpadDown"   -> ev("Touched")
          [] event.kind = "ControllerTouchpadUp"     -> ev("Released")
          [] event.kind = "ControllerTouchpadMotion" -> ev("Moved")
          [] OTHER -> None

\* The offset of a stick event of the left stick.
LeftStickOffset(axis, value) ==
    IF axis = "LeftX"
    THEN <<Zero, map(OfInt(value), STICK_DEADZONE, OfInt(AXIS_MAX))>>
    ELSE <<map(OfInt(value), STICK_DEADZONE, OfInt(AXIS_MAX)), Zero>>

\* The offset of a stick event of the right stick.
RightStickOffset(axis, value) ==
    IF axis = "LeftX"
    THEN <<map(OfInt(value), STICK_DEADZONE, OfInt(AXIS_MAX)), Zero>>
    ELSE <<Zero, map(OfInt(value), STICK_DEADZONE, OfInt(AXIS_MAX))>>

\* A trigger normalised with the deadzone of the sticks.
TriggerOffsetStickDeadzone(value) ==
    map(OfInt(value), STICK_DEADZONE, OfInt(AXIS_MAX))

\* The offset of a trigger event: map(value.into(), 0.0, AXIS_MAX).
TriggerOffset(value) == map(OfInt(value), Zero, OfInt(AXIS_MAX))

\* Event::from_sdl: None, or the Event with tag "Some" replaced by its variant.
Event_from_sdl(feat, event) ==
    CASE event.kind = "Quit" -> [tag |-> "Quit"]
      [] event.kind = "ControllerAxisMotion" /\ event.axis \in {"LeftX", "LeftY"} ->
            [tag |-> "ControllerStickMotion", which |-> event.which,
             stick |-> "Left", offset |-> LeftStickOffset(event.axis, event.value)]
      [] event.kind = "ControllerAxisMotion" /\ event.axis \in {"RightX", "RightY"} ->
            [tag |-> "ControllerStickMotion", which |-> event.which,
             stick |-> "Right", offset |-> RightStickOffset(event.axis, event.value)]
      [] event.kind = "ControllerAxisMotion" /\ event.axis = "TriggerLeft" ->
            [tag |-> "ControllerTriggerMotion", which |-> event.which,
             trigger |-> "Left",
             trigger_offset |-> TriggerOffset(event.value)]
      [] event.kind = "ControllerAxisMotion" /\ event.axis = "TriggerRight" ->
            [tag |-> "ControllerTriggerMotion", which |-> event.which,
             trigger |-> "Right",
             trigger_offset |-> TriggerOffset(event.value)]
      [] event.kind = "ControllerButtonDown" ->
            [tag |-> "ControllerButtonDown", which |-> event.which,
             button |-> Button_from_sdl(event.button)]
      [] event.kind = "ControllerButtonUp" ->
            [tag |-> "ControllerButtonUp", which |-> event.which,
             button |-> Button_from_sdl(event.button)]
      [] event.kind = "ControllerDeviceAdded" ->
            [tag |-> "ControllerDeviceAdded", which |-> event.which]
      [] event.kind = "ControllerDeviceRemoved" ->
            [tag |-> "ControllerDeviceRemoved", which |-> event.which]
      [] event.kind = "ControllerDeviceRemapped" ->
            [tag |-> "ControllerDeviceRemapped", which |-> event.which]
      [] event.kind = "ControllerSteamHandleUpdate" ->
            [tag |-> "ControllerSteamHandleUpdate", which |-> event.which]
      [] event.kind \in {"ControllerTouchpadDown", "ControllerTouchpadMotion",
                         "ControllerTouchpadUp"} ->
            IF feat.touchpad
            THEN LET t == TouchpadEvent_from_sdl(event)
                 IN  IF t = None THEN None
                     ELSE [tag |-> "ControllerTouchpad", touchpad_event |-> t]
            ELSE None
      [] event.kind = "ControllerSensorUpdated" /\ feat.sensors ->
            [tag |-> "ControllerSensorUpdated", which |-> event.which,
             sensor |-> Sensor_from_sdl(event.sensor),
             data |-> [i \in 1 .. 3 |->
                         map(event.data[i], <<1, 100>>, OfInt(1))]]
      [] event.kind \in OtherKinds -> None

----------------------------------------------------------------------------
(* Girl: the event pump.                                                   *)

\* Longest backend queue explored.
MaxQueue == 2

\* Option<SdlEvent>::None, as poll_event returns it on an empty queue.
NoSdlEvent == [kind |-> "None"]

Features == [touchpad : BOOLEAN, sensors : BOOLEAN]

\* The raw events the backend delivers while the queue is explored: two
\* kinds the translator discards, a touchpad event (translated only with
\* the touchpad feature) and three it translates.
Deliverable ==
    { [kind |-> "KeyDown"],
      [kind |-> "MouseMotion"],
      [kind |-> "Quit"],
      [kind |-> "ControllerButtonDown", which |-> 0, button |-> "A"],
      [kind |-> "ControllerAxisMotion", which |-> 1, axis |-> "RightY",
       value |-> 16384],
      [kind |-> "ControllerTouchpadDown", which |-> 0, touchpad |-> 0,
       finger |-> 0, x |-> 1, y |-> 0, pressure |-> 1] }

\* event() that polls again after a discarded raw event.
RECURSIVE Girl_event_retry(_, _)
Girl_event_retry(feat, pump) ==
    IF pump = <<>>
    THEN [pump |-> pump, taken |-> NoSdlEvent, ret |-> None]
    ELSE IF Event_from_sdl(feat, Head(pump)) = None /\ Tail(pump) # <<>>
         THEN Girl_event_retry(feat, Tail(pump))
         ELSE [pump |-> Tail(pump), taken |-> Head(pump),
               ret |-> Event_from_sdl(feat, Head(pump))]

\* self.event_pump.poll_event().as_ref().and_then(Event::from_sdl): the
\* queue left, the raw event taken and the value returned.
Girl_event(feat, pump) ==
    IF pump = <<>>
    THEN [pump |-> pump, taken |-> NoSdlEvent, ret |-> None]
    ELSE [pump |-> Tail(pump), taken |-> Head(pump),
          ret |-> Event_from_sdl(feat, Head(pump))]

\* Girl::event.
event ==
    /\ ~blocking
    /\ LET r == Girl_event(features, event_pump)
       IN  /\ event_pump' = r.pump
           /\ sdl_event' = r.taken
           /\ ret' = r.ret
    /\ UNCHANGED <<features, blocking, gamepadVars, csVars, inputVars,
                   iterVars>>

\* Girl::event_blocking is called: the caller is in the loop from here on.
event_blocking ==
    /\ ~blocking
    /\ blocking' = TRUE
    /\ UNCHANGED <<features, event_pump, sdl_event, ret, gamepadVars, csVars,
                   inputVars, iterVars>>

\* The loop of event_blocking returning on every raw event.
LoopReturnsAlways(ev) == TRUE

\* if let Some(ev) = Event::from_sdl(..) { return ev; }
LoopReturns(ev) == ev # None

\* One iteration of the loop of event_blocking: wait_event() blocks while
\* the queue is empty and takes its head otherwise.
wait_event ==
    /\ blocking
    /\ event_pump # <<>>
    /\ LET ev == Event_from_sdl(features, Head(event_pump))
       IN  /\ event_pump' = Tail(event_pump)
           /\ sdl_event' = Head(event_pump)
           /\ IF LoopReturns(ev)
              THEN ret' = ev /\ blocking' = FALSE
              ELSE UNCHANGED <<ret, blocking>>
    /\ UNCHANGED <<features, gamepadVars, csVars, inputVars, iterVars>>

\* The backend queues a raw event.
Deliver ==
    /\ Len(event_pump) < MaxQueue
    /\ \E e \in Deliverable : event_pump' = Append(event_pump, e)
    /\ UNCHANGED <<features, blocking, sdl_event, ret, gamepadVars, csVars,
                   inputVars, iterVars>>

----------------------------------------------------------------------------
(* Gamepad: stick, trigger and button queries.  What the backend reports   *)
(* for an axis or a button is its to choose at each query.                 *)

\* Largest magnitude of the raw values map is applied to on its own.
MaxRaw == 4

\* The arguments map is applied to on its own: raw values, thresholds in
\* [0, 1] and positive maxima.
MapValues == {OfInt(n) : n \in -MaxRaw .. MaxRaw}

MapThresholds == {Zero, <<1, 4>>, <<1, 2>>, OfInt(1)}

MapMaxes == {OfInt(1), OfInt(2), OfInt(4)}

\* map applied to the pending arguments.
map_call ==
    /\ call.fn = "pending"
    /\ call' = [call EXCEPT !.fn = "map"]
    /\ returned' = map(call.value, call.threshold, call.max)
    /\ UNCHANGED <<gamepadVars, csVars, girlVars, iterVars>>

Sticks == {"Left", "Right"}

Triggers == {"Left", "Right"}

\* Stick::into_sdl_axis_pair.
into_sdl_axis_pair(stick) ==
    CASE stick = "Left"  -> <<"LeftX", "LeftY">>
      [] stick = "Right" -> <<"RightX", "RightY">>

\* Trigger::into_sdl_axis.
into_sdl_axis(trig) ==
    CASE trig = "Left"  -> "TriggerLeft"
      [] trig = "Right" -> "TriggerRight"

\* The deadzones stick_with_deadzone is called with.
Deadzones == {Zero, <<1, 20>>, STICK_DEADZONE, <<1, 2>>, OfInt(1)}

\* Gamepad::stick_with_deadzone, gp_axis being what self.gp.axis reports.
Gamepad_stick_with_deadzone(gp_axis, stick, deadzone) ==
    LET pair == into_sdl_axis_pair(stick)
    IN  << map(OfInt(gp_axis[pair[1]]), deadzone, OfInt(AXIS_MAX)),
           map(OfInt(gp_axis[pair[2]]), deadzone, OfInt(AXIS_MAX)) >>

\* Gamepad::stick.
Gamepad_stick(gp_axis, stick) ==
    Gamepad_stick_with_deadzone(gp_axis, stick, STICK_DEADZONE)

\* Gamepad::trigger.
Gamepad_trigger(gp_axis, trig) ==
    map(OfInt(gp_axis[into_sdl_axis(trig)]), Zero, OfInt(AXIS_MAX))

\* The readings of the two axes of a stick.
StickReadings(stick) ==
    [{into_sdl_axis_pair(stick)[1], into_sdl_axis_pair(stick)[2]} -> AxisValues]

stick_with_deadzone ==
    /\ \E st \in Sticks, deadzone \in Deadzones :
          \E gp_axis \in StickReadings(st) :
             /\ call' = [fn |-> "stick_with_deadzone", stick |-> st,
                         deadzone |-> deadzone, gp_axis |-> gp_axis]
             /\ returned' = Gamepad_stick_with_deadzone(gp_axis, st, deadzone)
    /\ UNCHANGED <<gamepadVars, csVars, girlVars, iterVars>>

stick ==
    /\ \E st \in Sticks :
          \E gp_axis \in StickReadings(st) :
             /\ call' = [fn |-> "stick", stick |-> st, gp_axis |-> gp_axis]
             /\ returned' = Gamepad_stick(gp_axis, st)
    /\ UNCHANGED <<gamepadVars, csVars, girlVars, iterVars>>

trigger ==
    /\ \E trig \in Triggers :
          \E gp_axis \in [{into_sdl_axis(trig)} -> AxisValues] :
             /\ call' = [fn |-> "trigger", trigger |-> trig, gp_axis |-> gp_axis]
             /\ returned' = Gamepad_trigger(gp_axis, trig)
    /\ UNCHANGED <<gamepadVars, csVars, girlVars, iterVars>>

\* The buttons the backend reports as pressed, and the buttons of the
\* queried masks, are drawn from these.
ButtonsExplored == {"A", "B", "X", "Touchpad"}

\* flags.contains(flag) for a single flag.
HasFlag(flags, flag) == (flags \div flag) % 2 = 1

\* Button::iter: the defined flags contained in the value.
FlagsIn(flags) == {f \in ButtonFlags : HasFlag(flags, f)}

\* FromIterator for Button: the union of the flags.
RECURSIVE Collect(_)
Collect(fs) ==
    IF fs = {} THEN 0
    ELSE LET f == CHOOSE x \in fs : TRUE
         IN  f + Collect(fs \ {f})

\* The masks queried: every union of flags of explored buttons.
Masks == {Collect({Button_from_sdl(b) : b \in bs}) : bs \in SUBSET ButtonsExplored}

\* A query that reports every queried button as soon as one of them is
\* pressed.
Gamepad_buttons_any(gp_button, mask) ==
    IF \E f \in FlagsIn(mask) : gp_button[Button_into_sdl(f)]
    THEN mask ELSE 0

\* A query that reports every pressed button, queried or not.
Gamepad_buttons_unmasked(gp_button, mask) ==
    Collect({f \in ButtonFlags : gp_button[Button_into_sdl(f)]})

\* Gamepad::buttons, gp_button being what self.gp.button reports.
Gamepad_buttons(gp_button, mask) ==
    Collect({f \in FlagsIn(mask) : gp_button[Button_into_sdl(f)]})

\* Gamepad::buttons_pressed.
Gamepad_buttons_pressed(gp_button, mask) ==
    Gamepad_buttons(gp_button, mask) = mask

\* What the backend reports for each button when the set ps is held down.
ButtonReadings ==
    {[b \in SdlButtons |-> b \in ps] : ps \in SUBSET ButtonsExplored}

buttons ==
    /\ \E mask \in Masks, gp_button \in ButtonReadings :
          /\ call' = [fn |-> "buttons", buttons |-> mask, gp_button |-> gp_button]
          /\ returned' = Gamepad_buttons(gp_button, mask)
    /\ UNCHANGED <<gamepadVars, csVars, girlVars, iterVars>>

buttons_pressed ==
    /\ \E mask \in Masks, gp_button \in ButtonReadings :
          /\ call' = [fn |-> "buttons_pressed", buttons |-> mask,
                      gp_button |-> gp_button]
          /\ returned' = Gamepad_buttons_pressed(gp_button, mask)
    /\ UNCHANGED <<gamepadVars, csVars, girlVars, iterVars>>

----------------------------------------------------------------------------
(* ConnectedGamepads: the iterator of Girl::gamepads_connected.            *)

\* idx while no iterator has been made.
NoIterator == -1

\* Most joysticks attached.
MaxJoysticks == 3

\* Width in bits of the index explored, standing for the 32 of u32.
IdxBits == 3

\* u32::MAX at that width.
IdxMax == 2 ^ IdxBits - 1

\* What a device index holds: a joystick that is no game controller, a game
\* controller that opens, one whose open() fails, and one that opens but
\* whose Gamepad::from_sdl gives None.
JoystickKinds == {"joystick", "controller", "open_fails", "from_sdl_none"}

RECURSIVE SeqsUpTo(_, _)
SeqsUpTo(S, n) ==
    IF n = 0 THEN {<<>>}
    ELSE LET shorter == SeqsUpTo(S, n - 1)
         IN  shorter \cup {Append(q, x) : q \in shorter, x \in S}

\* The joystick tables explored; device index i is element i + 1.
JoystickTables == SeqsUpTo(JoystickKinds, MaxJoysticks)

\* Every attached joystick taken for a game controller.
is_joystick(i) == i < Len(joysticks)

\* gcs.is_game_controller(idx): false beyond the table.
is_game_controller(i) ==
    i < Len(joysticks) /\ joysticks[i + 1] # "joystick"

\* u32::checked_add(1): None on overflow.
checked_add_1(i) == IF i = IdxMax THEN None ELSE [tag |-> "Some", v |-> i + 1]

\* The `while` of next() leaving idx at 0 when it runs out of indices.
RECURSIVE SkipNonGamepadsReset(_)
SkipNonGamepadsReset(i) ==
    IF is_game_controller(i)
    THEN [idx |-> i, returned_none |-> FALSE]
    ELSE LET n == checked_add_1(i)
         IN  IF n = None
             THEN [idx |-> 0, returned_none |-> TRUE]
             ELSE SkipNonGamepadsReset(n.v)

\* The `while` of next(), from index i: where it stops, or that the `?`
\* left next() with None, idx staying at the last index assigned.
RECURSIVE SkipNonGamepads(_)
SkipNonGamepads(i) ==
    IF is_game_controller(i)
    THEN [idx |-> i, returned_none |-> FALSE]
    ELSE LET n == checked_add_1(i)
         IN  IF n = None
             THEN [idx |-> i, returned_none |-> TRUE]
             ELSE SkipNonGamepads(n.v)

\* Girl::gamepads_connected: a new iterator, at index 0.
gamepads_connected ==
    /\ idx' = 0
    /\ yielded' = <<>>
    /\ item' = None
    /\ call' = [fn |-> "gamepads_connected"]
    /\ UNCHANGED <<joysticks, returned, gamepadVars, csVars, girlVars>>

\* ConnectedGamepads::next.
next ==
    /\ idx # NoIterator
    /\ call' = [fn |-> "next"]
    /\ LET sk == SkipNonGamepads(idx)
       IN  IF sk.returned_none
           THEN idx' = sk.idx /\ item' = None /\ UNCHANGED yielded
           ELSE IF joysticks[sk.idx + 1] = "open_fails"
           THEN idx' = sk.idx /\ item' = None /\ UNCHANGED yielded
           ELSE LET gamepad == IF joysticks[sk.idx + 1] = "from_sdl_none"
                               THEN None
                               ELSE [tag |-> "Gamepad", index |-> sk.idx]
                    n == checked_add_1(sk.idx)
                IN  IF n = None
                    THEN idx' = sk.idx /\ item' = None /\ UNCHANGED yielded
                    ELSE /\ idx' = n.v
                         /\ item' = gamepad
                         /\ yielded' = IF gamepad = None THEN yielded
                                        ELSE Append(yielded, sk.idx)
    /\ UNCHANGED <<joysticks, returned, gamepadVars, csVars, girlVars>>

\* ExactSizeIterator::len: num_joysticks().unwrap_or(0), num_joysticks
\* being the backend's count of attached joysticks or its error.
ConnectedGamepads_len(num_joysticks) ==
    IF num_joysticks.tag = "Ok" THEN num_joysticks.v ELSE 0

\* What num_joysticks() can return.
NumJoysticks == {[tag |-> "Ok", v |-> Len(joysticks)], [tag |-> "Err"]}

len ==
    /\ idx # NoIterator
    /\ \E n \in NumJoysticks :
          /\ call' = [fn |-> "len", num_joysticks |-> n]
          /\ returned' = ConnectedGamepads_len(n)
    /\ UNCHANGED <<iterVars, gamepadVars, csVars, girlVars>>

\* Iterator::size_hint: (len, Some(len)).
size_hint ==
    /\ idx # NoIterator
    /\ \E n \in NumJoysticks :
          /\ call' = [fn |-> "size_hint", num_joysticks |-> n]
          /\ returned' = <<ConnectedGamepads_len(n),
                           [tag |-> "Some", v |-> ConnectedGamepads_len(n)]>>
    /\ UNCHANGED <<iterVars, gamepadVars, csVars, girlVars>>

----------------------------------------------------------------------------
(* Gamepad handles: equality, ordering and hashing.                        *)

\* Largest instance id explored.
MaxId == 1

\* A finger table as opened, and the same table after a touchpad() call
\* that read its slot as pressed.
FreshTable == touchpads_init([num_touchpads |-> 1, num_fingers |-> 1])

TouchedTable ==
    [FreshTable EXCEPT ![0][0] = StorePrev(DefaultTouchpadState, "Touched", <<1, 0>>, 1)]

\* The handles compared: gp_id and joy_id are what gp.instance_id() and
\* joy.instance_id() return.
Handles ==
    [gp_id : 0 .. MaxId, joy_id : 0 .. MaxId, touchpads : {FreshTable, TouchedTable}]

\* PartialEq::eq for Gamepad.
Gamepad_eq(self, other) ==
    self.gp_id = other.gp_id /\ self.joy_id = other.joy_id

\* Ord::cmp for the tuples (u32, u32).
TupleCmp(a, b) ==
    IF a[1] < b[1] THEN "Less"
    ELSE IF a[1] > b[1] THEN "Greater"
    ELSE IF a[2] < b[2] THEN "Less"
    ELSE IF a[2] > b[2] THEN "Greater"
    ELSE "Equal"

\* An ordering that looks at the controller id only.
Gamepad_cmp_gp_only(self, other) ==
    TupleCmp(<<self.gp_id, 0>>, <<other.gp_id, 0>>)

\* Ord::cmp for Gamepad.
Gamepad_cmp(self, other) ==
    TupleCmp(<<self.gp_id, self.joy_id>>, <<other.gp_id, other.joy_id>>)

\* PartialOrd::partial_cmp for Gamepad.
Gamepad_partial_cmp(self, other) ==
    [tag |-> "Some", v |-> Gamepad_cmp(self, other)]

\* Hash::hash for Gamepad: what it feeds the hasher, in order.
Gamepad_hash(self) == <<self.gp_id, self.joy_id>>

eq ==
    /\ \E self \in Handles, other \in Handles :
          /\ call' = [fn |-> "eq", self |-> self, other |-> other]
          /\ returned' = Gamepad_eq(self, other)
    /\ UNCHANGED <<gamepadVars, csVars, girlVars, iterVars>>

cmp ==
    /\ \E self \in Handles, other \in Handles :
          /\ call' = [fn |-> "cmp", self |-> self, other |-> other]
          /\ returned' = Gamepad_cmp(self, other)
    /\ UNCHANGED <<gamepadVars, csVars, girlVars, iterVars>>

partial_cmp ==
    /\ \E self \in Handles, other \in Handles :
          /\ call' = [fn |-> "partial_cmp", self |-> self, other |-> other]
          /\ returned' = Gamepad_partial_cmp(self, other)
    /\ UNCHANGED <<gamepadVars, csVars, girlVars, iterVars>>

hash ==
    /\ \E self \in Handles :
          /\ call' = [fn |-> "hash", self |-> self]
          /\ returned' = Gamepad_hash(self)
    /\ UNCHANGED <<gamepadVars, csVars, girlVars, iterVars>>

----------------------------------------------------------------------------
(* Gamepad: rumble.  A Duration is modelled by its length in microseconds. *)

\* Width in bits of the millisecond count explored, standing for the 32 of
\* u32.
MillisBits == 3

\* u32::MAX at that width.
MillisMax == 2 ^ MillisBits - 1

\* Duration::from_millis.
Duration_from_millis(ms) == ms * 1000

\* Duration::as_millis: whole milliseconds, as u128.
as_millis(duration) == duration \div 1000

\* A conversion to u32 that wraps.
to_u32_wrapping(n) == n % (MillisMax + 1)

\* try_into().unwrap_or(u32::MAX) from u128 to u32.
to_u32_or_max(n) == IF n <= MillisMax THEN n ELSE MillisMax

\* .map_err(|err| Error::SdlError(err.to_string()))
map_err_SdlError(res) ==
    IF res = "Ok" THEN [tag |-> "Ok"] ELSE [tag |-> "Err", err |-> "SdlError"]

\* Gamepad::set_rumble: what the backend is called with and what the call
\* returns, `sdl` being the outcome of the backend call.
Gamepad_set_rumble(low_frequency_rumble, high_frequency_rumble, duration, sdl) ==
    [backend  |-> [fn |-> "set_rumble", low |-> low_frequency_rumble,
                   high |-> high_frequency_rumble,
                   duration_ms |-> to_u32_or_max(as_millis(duration))],
     returned |-> map_err_SdlError(sdl)]

\* end_rumble with a duration of zero.
Gamepad_end_rumble_zero(sdl) == Gamepad_set_rumble(0, 0, Duration_from_millis(0), sdl)

\* Gamepad::end_rumble.
Gamepad_end_rumble(sdl) == Gamepad_set_rumble(0, 0, Duration_from_millis(1), sdl)

\* Gamepad::set_rumble_triggers.
Gamepad_set_rumble_triggers(left_trigger_rumble, right_trigger_rumble, duration, sdl) ==
    [backend  |-> [fn |-> "set_rumble_triggers", low |-> left_trigger_rumble,
                   high |-> right_trigger_rumble,
                   duration_ms |-> to_u32_or_max(as_millis(duration))],
     returned |-> map_err_SdlError(sdl)]

\* Gamepad::end_rumble_triggers.
Gamepad_end_rumble_triggers(sdl) ==
    Gamepad_set_rumble_triggers(0, 0, Duration_from_millis(1), sdl)

\* The u16 intensities explored.
Intensities == {0, 65535}

\* The durations explored: whole milliseconds up to past twice the range of
\* the backend's count, on the millisecond and just below the next one.
Durations ==
    {Duration_from_millis(ms) + us : ms \in 0 .. 2 * (MillisMax + 1) + 1, us \in {0, 999}}

\* What the backend call can come back with.
SdlResults == {"Ok", "Err"}

set_rumble ==
    /\ \E low \in Intensities, high \in Intensities, duration \in Durations,
          sdl \in SdlResults :
          LET r == Gamepad_set_rumble(low, high, duration, sdl)
          IN  /\ call' = [fn |-> "set_rumble", low |-> low, high |-> high,
                          duration |-> duration, sdl |-> sdl, backend |-> r.backend]
              /\ returned' = r.returned
    /\ UNCHANGED <<gamepadVars, csVars, girlVars, iterVars>>

end_rumble ==
    /\ \E sdl \in SdlResults :
          LET r == Gamepad_end_rumble(sdl)
          IN  /\ call' = [fn |-> "end_rumble", sdl |-> sdl, backend |-> r.backend]
              /\ returned' = r.returned
    /\ UNCHANGED <<gamepadVars, csVars, girlVars, iterVars>>

set_rumble_triggers ==
    /\ \E left \in Intensities, right \in Intensities, duration \in Durations,
          sdl \in SdlResults :
          LET r == Gamepad_set_rumble_triggers(left, right, duration, sdl)
          IN  /\ call' = [fn |-> "set_rumble_triggers", low |-> left, high |-> right,
                          duration |-> duration, sdl |-> sdl, backend |-> r.backend]
              /\ returned' = r.returned
    /\ UNCHANGED <<gamepadVars, csVars, girlVars, iterVars>>

end_rumble_triggers ==
    /\ \E sdl \in SdlResults :
          LET r == Gamepad_end_rumble_triggers(sdl)
          IN  /\ call' = [fn |-> "end_rumble_triggers", sdl |-> sdl,
                          backend |-> r.backend]
              /\ returned' = r.returned
    /\ UNCHANGED <<gamepadVars, csVars, girlVars, iterVars>>

----------------------------------------------------------------------------
(* ControllerSystem: SDL_Init, the channel and the polling thread.         *)

\* const SDL_INIT_SUCCESS
SDL_INIT_SUCCESS == 0

\* const NO_MORE_EVENTS
NO_MORE_EVENTS == 0

\* The values SDL_Init is taken to return: an error code, success, and a
\* positive value.
InitCodes == {-1, 0, 1}

\* The event types told apart by poll_events.
EventTypes == {"SDL_QUIT", "SDL_CONTROLLERDEVICEADDED", "other"}

\* The most events kept waiting in the backend's queue.
MaxPending == 2

\* No further event is queued once the channel holds this many messages.
MaxSent == 2

\* The test on the return code of SDL_Init in ControllerSystem::new:
\* TRUE when new() gives up with Error::Sdl2Init.
init_failed(ok) == ok <= SDL_INIT_SUCCESS

\* ControllerSystem::new, `ok` being what SDL_Init returns and `spawn`
\* whether the thread could be started.
ControllerSystem_new(ok, spawn) ==
    IF init_failed(ok)
    THEN [tag |-> "Err", err |-> "Sdl2Init", spawned |-> FALSE]
    ELSE IF spawn = "Err"
         THEN [tag |-> "Err", err |-> "RuntimeInit", spawned |-> FALSE]
         ELSE [tag |-> "Ok", spawned |-> TRUE]

\* tx.send(msg).map_err(Error::Send)?: the message is queued while the
\* receiving end lives, and the thread ends with an error otherwise.
send(msg) ==
    IF rx_alive
    THEN [ev_rx |-> Append(ev_rx, msg), thread |-> "running"]
    ELSE [ev_rx |-> ev_rx, thread |-> "Err"]

\* ControllerSystem::new.
new ==
    /\ ~rx_alive
    /\ thread # "running"
    /\ \E ok \in InitCodes, spawn \in {"Ok", "Err"} :
          LET r == ControllerSystem_new(ok, spawn)
          IN  /\ call' = [fn |-> "new", ok |-> ok, spawn |-> spawn,
                          spawned |-> r.spawned]
              /\ returned' = IF r.tag = "Ok" THEN [tag |-> "Ok"]
                                             ELSE [tag |-> "Err", err |-> r.err]
              /\ sdl_initialized' = (ok >= SDL_INIT_SUCCESS)
              /\ rx_alive' = (r.tag = "Ok")
              /\ thread' = IF r.spawned THEN "running" ELSE thread
    /\ ev_rx' = <<>>
    /\ ty' = "none"
    /\ UNCHANGED sdl_queue
    /\ UNCHANGED <<gamepadVars, girlVars, iterVars>>

\* poll_events, the head of one loop iteration: SDL_PollEvent and the read
\* of the event's type.  With nothing queued the loop goes round again.
SDL_PollEvent ==
    /\ thread = "running"
    /\ ty = "none"
    /\ IF Len(sdl_queue) = NO_MORE_EVENTS
       THEN UNCHANGED <<sdl_queue, ty>>
       ELSE /\ ty' = Head(sdl_queue)
            /\ sdl_queue' = Tail(sdl_queue)
    /\ UNCHANGED <<sdl_initialized, ev_rx, rx_alive, thread>>
    /\ UNCHANGED <<gamepadVars, girlVars, inputVars, iterVars>>

\* poll_events, the rest of the iteration: the match on the type.
match_ty ==
    /\ thread = "running"
    /\ ty # "none"
    /\ LET sent == CASE ty = "SDL_QUIT" -> send("Quit")
                     [] ty = "SDL_CONTROLLERDEVICEADDED" -> send("ControllerConnected")
                     [] OTHER -> [ev_rx |-> ev_rx, thread |-> "running"]
       IN  /\ ev_rx' = sent.ev_rx
           /\ thread' = IF ty = "SDL_QUIT" /\ sent.thread = "running"
                         THEN "Ok"
                         ELSE sent.thread
    /\ ty' = "none"
    /\ UNCHANGED <<sdl_initialized, sdl_queue, rx_alive>>
    /\ UNCHANGED <<gamepadVars, girlVars, inputVars, iterVars>>

\* The backend queues an event.
SDL_PushEvent ==
    /\ sdl_initialized
    /\ Len(sdl_queue) < MaxPending
    /\ Len(ev_rx) < MaxSent
    /\ \E t \in EventTypes : sdl_queue' = Append(sdl_queue, t)
    /\ UNCHANGED <<sdl_initialized, ev_rx, rx_alive, thread, ty>>
    /\ UNCHANGED <<gamepadVars, girlVars, inputVars, iterVars>>

\* Drop for ControllerSystem: SDL_Quit, and the receiving end goes with
\* the value.
drop ==
    /\ rx_alive
    /\ sdl_initialized' = FALSE
    /\ sdl_queue' = <<>>
    /\ ev_rx' = <<>>
    /\ rx_alive' = FALSE
    /\ call' = [fn |-> "drop"]
    /\ returned' = None
    /\ UNCHANGED <<thread, ty>>
    /\ UNCHANGED <<gamepadVars, girlVars, iterVars>>

----------------------------------------------------------------------------
(* Specifications.                                                         *)

\* A Gamepad right after Gamepad::from_sdl succeeded.
GamepadInit ==
    /\ device \in Devices
    /\ connected = TRUE
    /\ touchpads = touchpads_init(device)
    /\ result = "None"
    /\ states = <<>>
    /\ polled = [s \in Slots(touchpads) |-> NoSample]
    /\ lastRead = [s \in Slots(touchpads) |-> NoSample]
    /\ polls = 0

\* No Gamepad is open.
GamepadNone ==
    /\ device = [num_touchpads |-> 0, num_fingers |-> 0, coords |-> {0},
                 pressures |-> {0}]
    /\ connected = FALSE
    /\ touchpads = touchpads_init(device)
    /\ result = "None"
    /\ states = <<>>
    /\ polled = [s \in Slots(touchpads) |-> NoSample]
    /\ lastRead = [s \in Slots(touchpads) |-> NoSample]
    /\ polls = 0

\* A Girl right after Girl::new succeeded, with nothing queued.
GirlInit ==
    /\ features \in Features
    /\ event_pump = <<>>
    /\ blocking = FALSE
    /\ sdl_event = NoSdlEvent
    /\ ret = None

\* No input query has been made.
InputNone ==
    /\ call = [fn |-> "none"]
    /\ returned = None

\* No iterator over the connected gamepads exists.
IterNone ==
    /\ joysticks = <<>>
    /\ idx = NoIterator
    /\ yielded = <<>>
    /\ item = None

\* No event is queued and none was taken.
GirlNone ==
    /\ features = [touchpad |-> TRUE, sensors |-> TRUE]
    /\ event_pump = <<>>
    /\ blocking = FALSE
    /\ sdl_event = NoSdlEvent
    /\ ret = None

\* No ControllerSystem was made and the backend is not initialised.
SystemNone ==
    /\ sdl_initialized = FALSE
    /\ sdl_queue = <<>>
    /\ ev_rx = <<>>
    /\ rx_alive = FALSE
    /\ thread = "none"
    /\ ty = "none"

\* The Gamepad alone: touchpad polling of one open controller.
Init ==
    /\ GamepadInit
    /\ InputNone
    /\ IterNone
    /\ SystemNone
    /\ features = [touchpad |-> TRUE, sensors |-> TRUE]
    /\ event_pump = <<>>
    /\ blocking = FALSE
    /\ sdl_event = NoSdlEvent
    /\ ret = None

Next ==
    \/ touchpad
    \/ Disconnect

Spec == Init /\ [][Next]_vars

\* The Girl alone: the event queue, polled and waited on.
InitGirl == GirlInit /\ GamepadNone /\ InputNone /\ IterNone /\ SystemNone

NextGirl ==
    \/ event
    \/ event_blocking
    \/ wait_event
    \/ Deliver

SpecGirl == InitGirl /\ [][NextGirl]_vars

\* The thread inside event_blocking keeps running: an iteration that can
\* be taken is taken.
FairSpecGirl == SpecGirl /\ WF_vars(wait_event)

\* The translator alone: one raw event of any kind is pending and event()
\* is called on it.
InitTranslate ==
    /\ GamepadNone
    /\ InputNone
    /\ IterNone
    /\ SystemNone
    /\ features \in Features
    /\ event_pump \in {<<e>> : e \in SdlEvents(features)}
    /\ blocking = FALSE
    /\ sdl_event = NoSdlEvent
    /\ ret = None

NextTranslate == event

SpecTranslate == InitTranslate /\ [][NextTranslate]_vars

\* The input queries of one open controller, one with a single touchpad of
\* a single finger.
InitInput ==
    /\ GamepadInit
    /\ device.num_touchpads = 1
    /\ device.num_fingers = 1
    /\ GirlNone
    /\ InputNone
    /\ IterNone
    /\ SystemNone

NextInput ==
    \/ stick
    \/ stick_with_deadzone
    \/ trigger
    \/ buttons
    \/ buttons_pressed

SpecInput == InitInput /\ [][NextInput]_vars

\* The enumeration of the attached controllers, over every joystick table.
InitConnected ==
    /\ GamepadNone
    /\ GirlNone
    /\ InputNone
    /\ joysticks \in JoystickTables
    /\ idx = NoIterator
    /\ yielded = <<>>
    /\ item = None
    /\ SystemNone

NextConnected ==
    \/ gamepads_connected
    \/ next
    \/ len
    \/ size_hint

SpecConnected == InitConnected /\ [][NextConnected]_vars

\* The normalizer alone, applied once to arguments of any kind.
InitMap ==
    /\ GamepadNone
    /\ GirlNone
    /\ IterNone
    /\ SystemNone
    /\ call \in [fn : {"pending"}, value : MapValues,
                  threshold : MapThresholds, max : MapMaxes]
    /\ returned = None

NextMap == map_call

SpecMap == InitMap /\ [][NextMap]_vars

\* The rumble calls of one open controller.
InitRumble ==
    /\ GamepadInit
    /\ device.num_touchpads = 1
    /\ device.num_fingers = 1
    /\ GirlNone
    /\ InputNone
    /\ IterNone
    /\ SystemNone

NextRumble ==
    \/ set_rumble
    \/ end_rumble
    \/ set_rumble_triggers
    \/ end_rumble_triggers

SpecRumble == InitRumble /\ [][NextRumble]_vars

\* One ControllerSystem at a time: its construction, its polling thread,
\* the events the backend queues, and its drop.
InitSystem ==
    /\ GamepadNone
    /\ GirlNone
    /\ InputNone
    /\ IterNone
    /\ SystemNone

NextSystem ==
    \/ new
    \/ SDL_PollEvent
    \/ match_ty
    \/ SDL_PushEvent
    \/ drop

SpecSystem == InitSystem /\ [][NextSystem]_vars

\* Comparisons and hashes of Gamepad handles.
InitHandles ==
    /\ GamepadNone
    /\ GirlNone
    /\ InputNone
    /\ IterNone
    /\ SystemNone

NextHandles ==
    \/ eq
    \/ cmp
    \/ partial_cmp
    \/ hash

SpecHandles == InitHandles /\ [][NextHandles]_vars

----------------------------------------------------------------------------
(* Properties of the touchpad tracker (checked under Spec).                *)

\* The step is a call of touchpad().
TouchpadCalled == polls' # polls

\* The positions, in the Vec `sts`, of the events of slot s.
EventsFor(sts, s) ==
    {i \in 1 .. Len(sts) : sts[i].touchpad = s[1] /\ sts[i].finger = s[2]}

\* The query result p is a sample read as pressed / as released.
ReadPressed(p) == p.res = 0 /\ p.state = PRESSED

ReadReleased(p) == p.res = 0 /\ p.state = RELEASED

\* The stored state of slot s in the finger table tps.
Stored(tps, s) == tps[s[1]][s[2]]

\* C1: Touchpad idempotence.  When a call of touchpad() reads for a slot the
\* very sample the call before it read for that slot (same state, position
\* and pressure), it emits no event for that slot; when that is so for every
\* slot, the call returns an empty list.
C1_TouchpadIdempotence ==
    [][TouchpadCalled =>
        /\ \A s \in Slots(touchpads) :
              (polled[s].res = 0 /\ polled'[s] = polled[s])
                  => EventsFor(states', s) = {}
        /\ ( /\ result = "Ok"
             /\ result' = "Ok"
             /\ \A s \in Slots(touchpads) :
                    polled[s].res = 0 /\ polled'[s] = polled[s] )
           => states' = <<>>
      ]_vars

\* A call read a pressed finger and emitted nothing for it: the repeat of an
\* identical pressed sample.
C1_Witness ==
    /\ result = "Ok"
    /\ \E s \in Slots(touchpads) :
          ReadPressed(polled[s]) /\ EventsFor(states, s) = {}

\* C2: Touchpad release-once.  A Released event of a slot is emitted only by
\* a call that reads the slot released while the last sample successfully
\* read for it was pressed; a call that reads the slot released when the last
\* sample read for it was released too (or when none was ever read) emits
\* nothing for the slot, whatever position and pressure the sample carries.
C2_ReleaseOnce ==
    [][TouchpadCalled =>
        \A s \in Slots(touchpads) :
            /\ (\E i \in EventsFor(states', s) : states'[i].action = "Released")
                  => (ReadReleased(polled'[s]) /\ ReadPressed(lastRead[s]))
            /\ (ReadReleased(polled'[s]) /\ ~ReadPressed(lastRead[s]))
                  => EventsFor(states', s) = {}
      ]_vars

\* A call emitted Released for a slot, and the sample it read carries a
\* position and a pressure other than zero.
C2_Witness ==
    /\ result = "Ok"
    /\ \E s \in Slots(touchpads) :
          /\ ReadReleased(polled[s])
          /\ polled[s].position # <<0, 0>>
          /\ polled[s].pressure # 0
          /\ \E i \in EventsFor(states, s) : states[i].action = "Released"

\* What the loop body pushes, and the slot it leaves, for the samples
\* (Touched, [0.1, 0.1], 0.5), (Touched, [0.1, 0.1], 0.5),
\* (Touched, [0.2, 0.1], 0.5), (Released, [0.2, 0.1], 0.0) read one after the
\* other on a fresh slot; positions in tenths, pressures in tenths.
Scenario ==
    LET smp(state, x, p) ==
            [res |-> 0, state |-> state, position |-> <<x, 1>>, pressure |-> p]
        b1 == FingerBody(DefaultTouchpadState, 0, 0, smp(PRESSED, 1, 5))
        b2 == FingerBody(b1.prev, 0, 0, smp(PRESSED, 1, 5))
        b3 == FingerBody(b2.prev, 0, 0, smp(PRESSED, 2, 5))
        b4 == FingerBody(b3.prev, 0, 0, smp(RELEASED, 2, 0))
    IN  <<b1.pushed, b2.pushed, b3.pushed, b4.pushed>>

\* C3: Touchpad move detection.  When the last sample read for a slot was
\* pressed and the call reads it pressed with another position or another
\* pressure, the call emits exactly one event for the slot: a Moved that
\* carries the new position and pressure.  The four samples of Scenario
\* yield Touched, nothing, Moved at the new position, Released.
C3_MoveDetection ==
    /\ Len(Scenario[1]) = 1 /\ Scenario[1][1].action = "Touched"
    /\ Scenario[2] = <<>>
    /\ Len(Scenario[3]) = 1 /\ Scenario[3][1].action = "Moved"
    /\ Scenario[3][1].position = <<2, 1>> /\ Scenario[3][1].pressure = 5
    /\ Len(Scenario[4]) = 1 /\ Scenario[4][1].action = "Released"
    /\ [][TouchpadCalled =>
        \A s \in Slots(touchpads) :
            ( /\ ReadPressed(lastRead[s])
              /\ ReadPressed(polled'[s])
              /\ \/ polled'[s].position # lastRead[s].position
                 \/ polled'[s].pressure # lastRead[s].pressure )
            => /\ Cardinality(EventsFor(states', s)) = 1
               /\ \A i \in EventsFor(states', s) :
                     /\ states'[i].action = "Moved"
                     /\ states'[i].position = polled'[s].position
                     /\ states'[i].pressure = polled'[s].pressure
        ]_vars

\* A call emitted Moved for a slot, at a position other than [0, 0].
C3_Witness ==
    /\ result = "Ok"
    /\ \E s \in Slots(touchpads) :
          /\ ReadPressed(polled[s])
          /\ \E i \in EventsFor(states, s) :
                states[i].action = "Moved" /\ states[i].position # <<0, 0>>

\* C4: Touchpad touched-once.  A call that reads a slot pressed emits exactly
\* one event for it, a Touched, when the last sample successfully read for
\* the slot was not pressed (the rising edge, also when the finger comes back
\* with the position and pressure the slot still stores); when the last
\* sample read was pressed it emits a Moved or nothing, never a Touched.
C4_TouchedOnce ==
    [][TouchpadCalled =>
        \A s \in Slots(touchpads) :
            ReadPressed(polled'[s]) =>
                IF ReadPressed(lastRead[s])
                THEN \A i \in EventsFor(states', s) : states'[i].action = "Moved"
                ELSE /\ Cardinality(EventsFor(states', s)) = 1
                     /\ \A i \in EventsFor(states', s) :
                           states'[i].action = "Touched"
      ]_vars

\* A call emitted Touched for a slot it read pressed at position [0, 0] with
\* pressure 0, the values a slot stores before its first touch.
C4_Witness ==
    /\ result = "Ok"
    /\ \E s \in Slots(touchpads) :
          /\ ReadPressed(polled[s])
          /\ polled[s].position = <<0, 0>>
          /\ polled[s].pressure = 0
          /\ \E i \in EventsFor(states, s) : states[i].action = "Touched"

\* C5 as stated: after a successful call, every slot whose query succeeded
\* stores the action, position and pressure of the sample just read.
C5_StoredIsLastSample ==
    result = "Ok" =>
        \A s \in Slots(touchpads) :
            polled[s].res = 0 =>
                /\ Stored(touchpads, s).action = ActionOf(polled[s].state)
                /\ Stored(touchpads, s).position = polled[s].position
                /\ Stored(touchpads, s).pressure = polled[s].pressure

\* C5 amended: after a call, every slot whose query succeeded stores the
\* action of the sample just read; it stores the sample's position and
\* pressure when the sample is pressed or an event was emitted for the slot,
\* and keeps the position and pressure it had when a released sample was
\* suppressed.
C5_StoredActionIsLastSample ==
    [][TouchpadCalled =>
        \A s \in Slots(touchpads) :
            polled'[s].res = 0 =>
                /\ Stored(touchpads', s).action = ActionOf(polled'[s].state)
                /\ IF ReadPressed(polled'[s]) \/ EventsFor(states', s) # {}
                   THEN /\ Stored(touchpads', s).position = polled'[s].position
                        /\ Stored(touchpads', s).pressure = polled'[s].pressure
                   ELSE /\ Stored(touchpads', s).position = Stored(touchpads, s).position
                        /\ Stored(touchpads', s).pressure = Stored(touchpads, s).pressure
      ]_vars

\* A released sample was suppressed and the slot stores another position.
C5_Witness ==
    /\ result = "Ok"
    /\ \E s \in Slots(touchpads) :
          /\ ReadReleased(polled[s])
          /\ EventsFor(states, s) = {}
          /\ Stored(touchpads, s).position # polled[s].position

\* (touchpad, finger) of event a comes before that of event b.
LexLess(a, b) ==
    \/ a.touchpad < b.touchpad
    \/ a.touchpad = b.touchpad /\ a.finger < b.finger

\* C10: the events one call returns are strictly increasing in (touchpad
\* index, finger index), and their indices lie within the dimensions measured
\* at open time.
C10_EventsOrdered ==
    /\ \A i, j \in 1 .. Len(states) : i < j => LexLess(states[i], states[j])
    /\ \A i \in 1 .. Len(states) :
          /\ states[i].touchpad \in 0 .. NonNegative(device.num_touchpads) - 1
          /\ states[i].finger \in 0 .. NonNegative(device.num_fingers) - 1

\* A call returned events of the slots (0, 1) and (1, 0).
C10_Witness ==
    /\ EventsFor(states, <<0, 1>>) # {}
    /\ EventsFor(states, <<1, 0>>) # {}

----------------------------------------------------------------------------
(* Properties of the translator and of the event pump.                     *)

\* The raw event kinds the translator recognizes under the features built.
RecognizedKinds(feat) ==
    {"Quit", "ControllerAxisMotion", "ControllerButtonDown",
     "ControllerButtonUp", "ControllerDeviceAdded", "ControllerDeviceRemoved",
     "ControllerDeviceRemapped", "ControllerSteamHandleUpdate"}
    \cup (IF feat.touchpad
          THEN {"ControllerTouchpadDown", "ControllerTouchpadMotion",
                "ControllerTouchpadUp"}
          ELSE {})
    \cup (IF feat.sensors THEN {"ControllerSensorUpdated"} ELSE {})

Translatable(feat, e) == e.kind \in RecognizedKinds(feat)

\* The variant a recognized raw event is translated to.
VariantOf(e) ==
    CASE e.kind = "ControllerAxisMotion" ->
            IF e.axis \in {"TriggerLeft", "TriggerRight"}
            THEN "ControllerTriggerMotion" ELSE "ControllerStickMotion"
      [] e.kind \in {"ControllerTouchpadDown", "ControllerTouchpadMotion",
                     "ControllerTouchpadUp"} -> "ControllerTouchpad"
      [] OTHER -> e.kind

\* C6 as stated: a raw motion of a stick axis is translated to a stick event
\* of the stick of that axis, with the normalized value in offset[0] for an X
\* axis and in offset[1] for a Y axis, and 0.0 in the other component.
C6_StickAxisTranslation ==
    ( /\ sdl_event.kind = "ControllerAxisMotion"
      /\ sdl_event.axis \in {"LeftX", "LeftY", "RightX", "RightY"} )
    => LET v == map(OfInt(sdl_event.value), STICK_DEADZONE, OfInt(AXIS_MAX))
       IN  /\ ret.tag = "ControllerStickMotion"
           /\ ret.stick = (IF sdl_event.axis \in {"LeftX", "LeftY"}
                           THEN "Left" ELSE "Right")
           /\ ret.offset = (IF sdl_event.axis \in {"LeftX", "RightX"}
                            THEN <<v, Zero>> ELSE <<Zero, v>>)

\* C7: a call of event() takes the head of the backend queue and nothing
\* else (nothing from an empty queue); it returns None when the queue was
\* empty or the raw event taken is one the translator discards, and the
\* translation of the raw event taken otherwise.  The raw events behind the
\* head stay queued in their order.
C7_EventTakesOne ==
    [][(~blocking /\ ~blocking' /\ Len(event_pump') <= Len(event_pump)) =>
        IF event_pump = <<>>
        THEN event_pump' = <<>> /\ ret' = None
        ELSE /\ event_pump' = Tail(event_pump)
             /\ sdl_event' = Head(event_pump)
             /\ (ret' = None) <=> ~Translatable(features, Head(event_pump))
             /\ ret' # None => ret'.tag = VariantOf(Head(event_pump))
      ]_vars

\* event() took a discarded raw event and returned None while a raw event
\* the translator recognizes is still queued.
C7_Witness ==
    /\ ~blocking
    /\ sdl_event.kind \in {"KeyDown", "MouseMotion"}
    /\ ret = None
    /\ event_pump # <<>>
    /\ Translatable(features, Head(event_pump))

\* C8: inside event_blocking() every raw event is taken from the head of the
\* queue; the call returns on the first one the translator recognizes, with
\* its translation, and goes on waiting after one it discards, so it never
\* returns for a discarded event.  A call that has a recognized raw event in
\* the queue returns.
C8_EventBlocking ==
    /\ [][blocking =>
            IF Len(event_pump') < Len(event_pump)
            THEN /\ event_pump' = Tail(event_pump)
                 /\ IF Translatable(features, Head(event_pump))
                    THEN /\ ~blocking'
                         /\ ret' # None
                         /\ ret'.tag = VariantOf(Head(event_pump))
                    ELSE blocking' /\ ret' = ret
            ELSE blocking' /\ ret' = ret
         ]_vars
    /\ (blocking /\ \E i \in 1 .. Len(event_pump) :
                        Translatable(features, event_pump[i]))
          ~> ~blocking

\* The loop of event_blocking() has discarded a raw event and is still
\* waiting, with a recognized raw event next in the queue.
C8_Witness ==
    /\ blocking
    /\ sdl_event.kind \in {"KeyDown", "MouseMotion"}
    /\ event_pump # <<>>
    /\ Translatable(features, Head(event_pump))

\* C9: event() on one pending raw event returns None exactly when the kind
\* of the raw event is outside the recognized set, and otherwise the one
\* variant of that kind.
C9_TotalDiscard ==
    sdl_event # NoSdlEvent =>
        /\ (ret = None) <=> ~Translatable(features, sdl_event)
        /\ ret # None => ret.tag = VariantOf(sdl_event)

\* A raw event of an unrecognized kind was translated to None, here a
\* touchpad event in a build without the touchpad feature.
C9_Witness ==
    /\ sdl_event.kind = "ControllerTouchpadMotion"
    /\ ~features.touchpad
    /\ ret = None

----------------------------------------------------------------------------
(* Errors and geometry of the touchpad tracker (checked under Spec).       *)

\* C11: When the handle of the device cannot be resolved at a call of
\* touchpad(), the call returns the error and no event list, no finger slot
\* is queried and the finger table is left as it was; when the handle
\* resolves the call succeeds, whatever the finger queries return.
C11_HandleError ==
    [][TouchpadCalled =>
         /\ ~connected =>
               /\ result' = "Err"
               /\ states' = <<>>
               /\ \A s \in Slots(touchpads) : polled'[s] = NoSample
               /\ touchpads' = touchpads
         /\ connected => result' = "Ok"
      ]_vars

\* A call failed on a controller with finger slots, one of them touched.
C11_Witness ==
    /\ result = "Err"
    /\ ~connected
    /\ \E s \in Slots(touchpads) : Stored(touchpads, s).action = "Touched"

\* The events of slot s in the Vec `sts`, in order.
EventsOf(sts, s) ==
    SelectSeq(sts, LAMBDA e : e.touchpad = s[1] /\ e.finger = s[2])

\* C12: A slot whose finger query fails gets no event in the call and its
\* stored state stays; the call succeeds; every other slot gets the event
\* and the stored state that its own sample and its own stored state
\* determine, whether it comes before or after the failing slot.
C12_FailedQuerySkipped ==
    [][(TouchpadCalled /\ connected) =>
         /\ result' = "Ok"
         /\ \A s \in Slots(touchpads) :
               LET b == FingerBody(Stored(touchpads, s), s[1], s[2], polled'[s])
               IN  IF polled'[s].res # 0
                   THEN /\ EventsOf(states', s) = <<>>
                        /\ Stored(touchpads', s) = Stored(touchpads, s)
                   ELSE /\ EventsOf(states', s) = b.pushed
                        /\ Stored(touchpads', s) = b.prev
      ]_vars

\* Slot a comes before slot b in the iteration order.
SlotBefore(a, b) == a[1] < b[1] \/ (a[1] = b[1] /\ a[2] < b[2])

\* A call in which a finger query failed between a slot before it and a
\* slot after it that both got an event.
C12_Witness ==
    /\ result = "Ok"
    /\ \E s, a, b \in Slots(touchpads) :
          /\ SlotBefore(a, s) /\ SlotBefore(s, b)
          /\ polled[s].res # 0
          /\ EventsFor(states, a) # {}
          /\ EventsFor(states, b) # {}

\* C20: The finger table has as many rows as the touchpad count measured
\* at open time, a negative count taken as 0, and every row has as many
\* slots as the finger count measured for touchpad 0, a negative count
\* taken as 0; this holds after every call of touchpad().
C20_GeometryFixed ==
    LET rows == IF device.num_touchpads < 0 THEN 0 ELSE device.num_touchpads
        cols == IF device.num_fingers < 0 THEN 0 ELSE device.num_fingers
    IN  /\ DOMAIN touchpads = 0 .. rows - 1
        /\ \A t \in DOMAIN touchpads : DOMAIN touchpads[t] = 0 .. cols - 1
        /\ Cardinality(Slots(touchpads)) = rows * cols

\* A controller of two touchpads with two fingers each, after a call that
\* skipped a slot and left another one touched.
C20_Witness ==
    /\ device.num_touchpads = 2
    /\ device.num_fingers = 2
    /\ result = "Ok"
    /\ \E s \in Slots(touchpads) : polled[s].res # 0
    /\ \E s \in Slots(touchpads) : Stored(touchpads, s).action = "Touched"

----------------------------------------------------------------------------
(* Triggers and buttons in the translator (checked under SpecTranslate).   *)

\* C15: A raw ControllerAxisMotion on TriggerLeft or TriggerRight with value
\* r translates to ControllerTriggerMotion of trigger Left or Right, with the
\* device id of the raw event and the offset r / AXIS_MAX; a value other
\* than 0 never gives the offset 0.
C15_TriggerTranslation ==
    (sdl_event.kind = "ControllerAxisMotion"
       /\ sdl_event.axis \in {"TriggerLeft", "TriggerRight"}) =>
        /\ ret = [tag |-> "ControllerTriggerMotion",
                  which |-> sdl_event.which,
                  trigger |-> IF sdl_event.axis = "TriggerLeft"
                              THEN "Left" ELSE "Right",
                  trigger_offset |-> Rat(sdl_event.value, AXIS_MAX)]
        /\ sdl_event.value # 0 => ret.trigger_offset # Zero

\* The right trigger of controller 1 translated at a value that the
\* deadzone of the sticks would have zeroed.
C15_Witness ==
    /\ sdl_event.kind = "ControllerAxisMotion"
    /\ sdl_event.axis = "TriggerRight"
    /\ sdl_event.which = 1
    /\ sdl_event.value = 3276
    /\ ret.tag = "ControllerTriggerMotion"

\* C16: Button::from_sdl maps the 21 raw buttons one-to-one onto the 21
\* single-bit flags, Button::into_sdl is its inverse in both directions, and
\* a translated ControllerButtonDown / ControllerButtonUp carries the device
\* id of the raw event and the flag of its button.
C16_ButtonBijection ==
    /\ Cardinality(SdlButtons) = 21
    /\ Cardinality(ButtonFlags) = 21
    /\ \A b \in SdlButtons : Button_from_sdl(b) \in ButtonFlags
    /\ \A a, b \in SdlButtons : Button_from_sdl(a) = Button_from_sdl(b) => a = b
    /\ \A b \in SdlButtons : Button_into_sdl(Button_from_sdl(b)) = b
    /\ \A x \in ButtonFlags : Button_from_sdl(Button_into_sdl(x)) = x
    /\ sdl_event.kind \in {"ControllerButtonDown", "ControllerButtonUp"} =>
          ret = [tag |-> sdl_event.kind, which |-> sdl_event.which,
                 button |-> Button_from_sdl(sdl_event.button)]

\* The Touchpad button of controller 1 released.
C16_Witness ==
    /\ sdl_event.kind = "ControllerButtonUp"
    /\ sdl_event.button = "Touchpad"
    /\ sdl_event.which = 1
    /\ ret.tag = "ControllerButtonUp"
    /\ ret.button = 2 ^ 20

----------------------------------------------------------------------------
(* The axis normalizer (checked under SpecMap) and the input queries       *)
(* (checked under SpecInput).                                              *)

\* |r / max| < d, for rationals r, d and max > 0, in integers.
InsideDeadzone(r, d, max) == IntAbs(r[1]) * max[2] * d[2] < d[1] * r[2] * max[1]

\* q = r / max, for rationals q, r and max > 0, in integers.
IsQuotient(q, r, max) == q[2] > 0 /\ q[1] * (r[2] * max[1]) = q[2] * (r[1] * max[2])

\* C13: map(r, d, max) is 0.0 when |r / max| < d and r / max otherwise, the
\* edge |r / max| = d included; with d = 0 it is r / max for every r.
C13_AxisNormalizer ==
    call.fn = "map" =>
        /\ InsideDeadzone(call.value, call.threshold, call.max)
              => returned = Zero
        /\ ~InsideDeadzone(call.value, call.threshold, call.max)
              => IsQuotient(returned, call.value, call.max)
        /\ call.threshold = Zero
              => IsQuotient(returned, call.value, call.max)

\* map applied to a negative value on the edge of the deadzone.
C13_Witness ==
    /\ call.fn = "map"
    /\ call.value = OfInt(-1)
    /\ call.max = OfInt(4)
    /\ call.threshold = <<1, 4>>
    /\ returned = <<-1, 4>>

\* -1.0 <= q <= 1.0
InUnitInterval(q) == -q[2] <= q[1] /\ q[1] <= q[2]

\* C14: Whatever raw value of the i16 range the backend reports and
\* whatever the deadzone, stick(), stick_with_deadzone() and trigger()
\* return values within [-1.0, 1.0].
C14_NormalizedInUnitInterval ==
    /\ call.fn \in {"stick", "stick_with_deadzone"} =>
          InUnitInterval(returned[1]) /\ InUnitInterval(returned[2])
    /\ call.fn = "trigger" => InUnitInterval(returned)

\* The flag of raw button b is in the set `flags`.
Holds(flags, b) == HasFlag(flags, Button_from_sdl(b))

\* C17: buttons(mask) returns the buttons of mask that are pressed and no
\* other; buttons_pressed(mask) is true exactly when every button of mask
\* is pressed.
C17_ButtonQueries ==
    /\ call.fn = "buttons" =>
          /\ returned \in 0 .. 2 ^ 21 - 1
          /\ \A b \in SdlButtons :
                Holds(returned, b) <=> (Holds(call.buttons, b) /\ call.gp_button[b])
    /\ call.fn = "buttons_pressed" =>
          (returned <=> \A b \in SdlButtons :
                          Holds(call.buttons, b) => call.gp_button[b])

\* buttons(A | B | Touchpad) while B and X are pressed returned B.
C17_Witness ==
    /\ call.fn = "buttons"
    /\ call.buttons = 2 ^ 0 + 2 ^ 1 + 2 ^ 20
    /\ \A b \in SdlButtons : call.gp_button[b] <=> b \in {"B", "X"}
    /\ returned = 2 ^ 1

\* Button::A | Button::B
AB == 2 ^ 0 + 2 ^ 1

----------------------------------------------------------------------------
(* The enumeration of the attached controllers (checked under              *)
(* SpecConnected).                                                         *)

\* Every game controller of the table opens and gives a Gamepad.
AllOpen == \A i \in 1 .. Len(joysticks) : joysticks[i] \in {"joystick", "controller"}

\* The device indices of the game controllers, in increasing order.
RECURSIVE ControllersFrom(_)
ControllersFrom(i) ==
    IF i >= Len(joysticks) THEN <<>>
    ELSE IF joysticks[i + 1] = "joystick" THEN ControllersFrom(i + 1)
    ELSE <<i>> \o ControllersFrom(i + 1)

\* C19: When every controller opens, the iterator of gamepads_connected()
\* yields the indices of the game controllers in increasing order, each
\* once and none of a joystick that is no controller, next() returns None
\* only once all of them have been yielded, and a new iterator starts again
\* at index 0 with nothing yielded.
C19_ConnectedGamepads ==
    AllOpen =>
        /\ Len(yielded) <= Len(ControllersFrom(0))
        /\ yielded = SubSeq(ControllersFrom(0), 1, Len(yielded))
        /\ item # None =>
              /\ yielded # <<>>
              /\ item = [tag |-> "Gamepad", index |-> yielded[Len(yielded)]]
        /\ (idx > 0 /\ item = None) => yielded = ControllersFrom(0)
        /\ idx = 0 => yielded = <<>>

\* An iterator that skipped a joystick between two controllers, yielded
\* both and then returned None.
C19_Witness ==
    /\ joysticks = <<"controller", "joystick", "controller">>
    /\ yielded = <<0, 2>>
    /\ item = None
    /\ idx > 0

\* The Gamepads the remaining next() calls yield from index i on when every
\* controller opens: one for each game controller at or after i.
Remaining(i) == Len(ControllersFrom(i))

\* C26 as stated: whenever len() or size_hint() is called on the iterator,
\* the length it reports is the number of Gamepads the remaining next()
\* calls still yield (0 once next() has returned None), and size_hint()
\* gives it as both bounds.
C26_ExactSize ==
    (AllOpen /\ call.fn \in {"len", "size_hint"} /\ call.num_joysticks.tag = "Ok") =>
        /\ call.fn = "len" => returned = Remaining(idx)
        /\ call.fn = "size_hint" =>
              returned = <<Remaining(idx), [tag |-> "Some", v |-> Remaining(idx)]>>

\* The game controllers at or after index i that open into a Gamepad.
RECURSIVE OpenableFrom(_)
OpenableFrom(i) ==
    IF i >= Len(joysticks) THEN <<>>
    ELSE IF joysticks[i + 1] = "controller" THEN <<i>> \o OpenableFrom(i + 1)
    ELSE OpenableFrom(i + 1)

\* C27 as stated: after a call of next() the index does not rest on a
\* controller that failed to open, and what has been yielded together with
\* the controllers still ahead of the index are all the controllers that
\* open.
C27_FailedSlotPassedOver ==
    call.fn = "next" =>
        /\ ~(idx < Len(joysticks) /\ joysticks[idx + 1] = "open_fails")
        /\ yielded \o OpenableFrom(idx) = OpenableFrom(0)

\* No game controller is at or after index i.
NoControllerFrom(i) == \A j \in i .. Len(joysticks) - 1 : joysticks[j + 1] = "joystick"

\* C28: A call of next() with no game controller at or after the index
\* returns None and leaves the index at the maximum, where every later
\* call returns None again.
C28_NextTerminates ==
    /\ [][(call'.fn = "next" /\ NoControllerFrom(idx)) =>
             (idx' = IdxMax /\ item' = None /\ yielded' = yielded)]_vars
    /\ []((call.fn = "next" /\ idx = IdxMax) => item = None)

\* next() ran from the index after the only controller, past a joystick, up
\* to the maximum index.
C28_Witness ==
    /\ joysticks = <<"controller", "joystick">>
    /\ call.fn = "next"
    /\ yielded = <<0>>
    /\ idx = IdxMax
    /\ item = None

----------------------------------------------------------------------------
(* The stored finger states (checked under Spec).                          *)

\* C21: On a freshly opened Gamepad every slot stores Released, position
\* [0, 0] and pressure 0; the first call of touchpad() emits nothing for a
\* slot it reads as released, whatever its position, and exactly one event,
\* a Touched, for a slot it reads as pressed.
C21_FreshSlots ==
    /\ \A s \in Slots(touchpads) :
          /\ Stored(touchpads, s).action = "Released"
          /\ Stored(touchpads, s).position = <<0, 0>>
          /\ Stored(touchpads, s).pressure = 0
    /\ [][(TouchpadCalled /\ result = "None" /\ connected) =>
            \A s \in Slots(touchpads) :
                /\ ReadReleased(polled'[s]) => EventsFor(states', s) = {}
                /\ ReadPressed(polled'[s]) =>
                      /\ Cardinality(EventsFor(states', s)) = 1
                      /\ \A i \in EventsFor(states', s) :
                            /\ states'[i].action = "Touched"
                            /\ states'[i].position = polled'[s].position
                            /\ states'[i].pressure = polled'[s].pressure
         ]_vars

\* A call on slots that had never been read before it: one was read as
\* pressed away from [0, 0] and got a Touched.
C21_Witness ==
    /\ result = "Ok"
    /\ polls = 1
    /\ \A s \in Slots(touchpads) : polled[s].res = 0 /\ lastRead[s] = polled[s]
    /\ \E s \in Slots(touchpads) :
          /\ ReadPressed(polled[s])
          /\ polled[s].position # <<0, 0>>
          /\ polled[s].pressure # 0
          /\ \E i \in EventsFor(states, s) : states[i].action = "Touched"

\* C24: The action stored for a slot is always Touched or Released; a slot
\* for which the last call emitted Moved stores Touched.
C24_StoredNeverMoved ==
    /\ \A s \in Slots(touchpads) :
          Stored(touchpads, s).action \in {"Touched", "Released"}
    /\ result = "Ok" =>
          \A i \in 1 .. Len(states) :
              states[i].action = "Moved" =>
                  touchpads[states[i].touchpad][states[i].finger].action = "Touched"

\* A call emitted Moved for a slot, which stores Touched at the position of
\* the event.
C24_Witness ==
    /\ result = "Ok"
    /\ \E i \in 1 .. Len(states) :
          /\ states[i].action = "Moved"
          /\ touchpads[states[i].touchpad][states[i].finger].action = "Touched"
          /\ touchpads[states[i].touchpad][states[i].finger].position
                = states[i].position

\* C25: A call of touchpad() that returns the error changes no stored slot,
\* and a failed finger query leaves its slot as stored; so every slot that
\* was ever read stores the action of the sample last read for it with
\* success and, while touched, that sample's position and pressure, and a
\* slot never read stores the values it was opened with.
C25_FrameOfFailures ==
    /\ [][TouchpadCalled =>
            /\ result' = "Err" => touchpads' = touchpads
            /\ \A s \in Slots(touchpads) :
                  polled'[s].res # 0 => Stored(touchpads', s) = Stored(touchpads, s)
         ]_vars
    /\ [](\A s \in Slots(touchpads) :
            IF lastRead[s].res # 0
            THEN /\ Stored(touchpads, s).action = "Released"
                 /\ Stored(touchpads, s).position = <<0, 0>>
                 /\ Stored(touchpads, s).pressure = 0
            ELSE /\ Stored(touchpads, s).action = ActionOf(lastRead[s].state)
                 /\ ReadPressed(lastRead[s]) =>
                       /\ Stored(touchpads, s).position = lastRead[s].position
                       /\ Stored(touchpads, s).pressure = lastRead[s].pressure)

\* The finger query of a touched slot failed in a call that succeeded, and
\* the slot still stores the pressed sample read before.
C25_Witness ==
    /\ result = "Ok"
    /\ \E s \in Slots(touchpads) :
          /\ polled[s].res # 0
          /\ ReadPressed(lastRead[s])
          /\ lastRead[s].pressure # 0
          /\ Stored(touchpads, s).action = "Touched"
          /\ Stored(touchpads, s).pressure = lastRead[s].pressure

----------------------------------------------------------------------------
(* Gamepad handles (checked under SpecHandles).                            *)

\* The two handles have the same controller id and the same joystick id.
SameIds(a, b) == a.gp_id = b.gp_id /\ a.joy_id = b.joy_id

\* C22: Two handles are equal exactly when their controller ids and their
\* joystick ids match; cmp orders them by controller id, then by joystick
\* id, and is Equal exactly when they are equal; partial_cmp is Some of
\* cmp; hash feeds the hasher the two ids and nothing else.  The finger
\* tables of the handles play no part.
C22_HandleIdentity ==
    /\ call.fn = "eq" => (returned <=> SameIds(call.self, call.other))
    /\ call.fn = "cmp" =>
          /\ returned = "Less" <=>
                \/ call.self.gp_id < call.other.gp_id
                \/ /\ call.self.gp_id = call.other.gp_id
                   /\ call.self.joy_id < call.other.joy_id
          /\ returned = "Greater" <=>
                \/ call.self.gp_id > call.other.gp_id
                \/ /\ call.self.gp_id = call.other.gp_id
                   /\ call.self.joy_id > call.other.joy_id
          /\ returned = "Equal" <=> Gamepad_eq(call.self, call.other)
    /\ call.fn = "partial_cmp" =>
          /\ returned.tag = "Some"
          /\ returned.v = "Equal" <=> SameIds(call.self, call.other)
    /\ call.fn = "hash" => returned = <<call.self.gp_id, call.self.joy_id>>

\* Two handles of the same ids compared Equal while one of them has a
\* touched slot and the other has not.
C22_Witness ==
    /\ call.fn = "cmp"
    /\ call.self.touchpads # call.other.touchpads
    /\ call.self.gp_id = 1
    /\ call.self.joy_id = 0
    /\ returned = "Equal"

----------------------------------------------------------------------------
(* Rumble (checked under SpecRumble).                                      *)

\* C23: end_rumble() calls the backend's set_rumble with intensities 0, 0
\* and a duration of 1 millisecond and returns what set_rumble(0, 0, 1 ms)
\* returns for the same backend outcome; end_rumble_triggers() does the
\* same with set_rumble_triggers.
C23_EndRumble ==
    /\ call.fn = "end_rumble" =>
          /\ call.backend = [fn |-> "set_rumble", low |-> 0, high |-> 0,
                             duration_ms |-> 1]
          /\ call.backend = Gamepad_set_rumble(0, 0, 1000, call.sdl).backend
          /\ returned = Gamepad_set_rumble(0, 0, 1000, call.sdl).returned
          /\ returned.tag = "Ok" <=> call.sdl = "Ok"
    /\ call.fn = "end_rumble_triggers" =>
          /\ call.backend = [fn |-> "set_rumble_triggers", low |-> 0, high |-> 0,
                             duration_ms |-> 1]
          /\ call.backend = Gamepad_set_rumble_triggers(0, 0, 1000, call.sdl).backend
          /\ returned = Gamepad_set_rumble_triggers(0, 0, 1000, call.sdl).returned
          /\ returned.tag = "Ok" <=> call.sdl = "Ok"

\* end_rumble_triggers() called while the backend refuses the call.
C23_Witness ==
    /\ call.fn = "end_rumble_triggers"
    /\ call.sdl = "Err"
    /\ call.backend.duration_ms = 1
    /\ returned = [tag |-> "Err", err |-> "SdlError"]

\* C29: set_rumble and set_rumble_triggers pass the backend the whole
\* milliseconds of the duration, or the largest count the backend takes
\* when the duration has more, and the two intensities as given.
C29_RumbleDurationSaturates ==
    call.fn \in {"set_rumble", "set_rumble_triggers"} =>
        /\ call.backend.fn = call.fn
        /\ call.backend.low = call.low
        /\ call.backend.high = call.high
        /\ call.backend.duration_ms \in 0 .. MillisMax
        /\ call.backend.duration_ms * 1000 <= call.duration
        /\ IF call.duration < (MillisMax + 1) * 1000
           THEN call.duration < (call.backend.duration_ms + 1) * 1000
           ELSE call.backend.duration_ms = MillisMax

\* set_rumble called with a duration just over twice the range of the
\* backend's count, which a wrapping conversion would turn into 1 ms.
C29_Witness ==
    /\ call.fn = "set_rumble"
    /\ call.duration = (2 * (MillisMax + 1) + 1) * 1000 + 999
    /\ call.low = 65535
    /\ call.high = 0
    /\ call.backend.duration_ms = MillisMax

----------------------------------------------------------------------------
(* ControllerSystem (checked under SpecSystem).                            *)

\* C30: new() returns Err(Error::Sdl2Init) exactly when SDL_Init returns a
\* negative code, and when SDL_Init returns SDL_INIT_SUCCESS and the
\* thread can be started, new() starts it and returns Ok.
C30_NewInitResult ==
    call.fn = "new" =>
        /\ (returned = [tag |-> "Err", err |-> "Sdl2Init"]) <=> (call.ok < 0)
        /\ (call.ok = SDL_INIT_SUCCESS /\ call.spawn = "Ok") =>
              (returned.tag = "Ok" /\ call.spawned)

====
